---- MODULE Spec2Model ----
(***************************************************************************)
(* Model of the blockd lock server.  The repository holds two revisions of *)
(* the server: src/blockd.js (space-delimited text protocol) and           *)
(* src/unnamed/part_001 (JSON protocol with nonces and QUIT).  Both are    *)
(* modelled; the variable rev says which revision is running.              *)
(*                                                                         *)
(* Every handler of the event loop (a command on a socket, the "end" event *)
(* of a socket, the firing of a request's timer) is one action.  A handler *)
(* is a function on a machine record m, whose field thrown says that an    *)
(* exception has left the handler: nothing catches it, so the node process *)
(* ends with the state it had at the throw.                                *)
(***************************************************************************)
EXTENDS Integers, Sequences, FiniteSets, TLC

VARIABLES
    rev,             \* "text": src/blockd.js, "json": src/unnamed/part_001
    greedy,          \* settings.defaultReaderGreed
    deadWriteThrows, \* does socket.write on an ended socket throw (runtime dependent)
    locks,           \* LockCollection.locks: lockId -> ReaderWriterLock
    lockOrder,       \* insertion order of the keys of LockCollection.locks
    staleTimers,     \* armed timers of createRequest whose request has left its queue
    closed,          \* sockets whose "end" event was handled (or that QUIT)
    crashed,         \* an exception left a handler: the process is gone
    out,             \* frames written by the last handler, in order
    last,            \* the event the last handler handled
    pre              \* LockCollection.locks when the last handler started

vars == <<rev, greedy, deadWriteThrows, locks, lockOrder, staleTimers,
          closed, crashed, out, last, pre>>

\* ---------------------------------------------------------------- bounds
\* Spec: two connections and one lock id, every event
Conns == {"c1", "c2"}
LockIds == {"X"}
MaxTimers == 3

\* SpecThree: three connections that stay connected, one lock id
Conns3 == {"c1", "c2", "c3"}
MaxTimers3 == 2

\* SpecTwoLocks: two connections that keep what they hold, two lock ids
LockIds2 == {"X", "Y"}
MaxTimers2 == 2

\* ---------------------------------------------------------------- values
NoNonce == "undefined"
AcquireNonces == {NoNonce, "n1"}
ReleaseNonces == {NoNonce, "n2"}
NoSocket == "undefined"
NoWriter == [socket |-> "null", nonce |-> NoNonce]
NoLockId == "undefined"
NoMode == "none"

\* ---------------------------------------------------------------- Array.prototype
\* index of the first element of s whose socket is c, 0 when there is none
IndexOfSocket(s, c) ==
    IF \E i \in 1..Len(s) : s[i].socket = c
    THEN CHOOSE i \in 1..Len(s) :
            /\ s[i].socket = c
            /\ \A j \in 1..(i - 1) : s[j].socket # c
    ELSE 0

RemoveAt(s, i) == SubSeq(s, 1, i - 1) \o SubSeq(s, i + 1, Len(s))

\* Array.prototype.remove(item): splices out the first occurrence only
ArrayRemove(s, c) ==
    IF IndexOfSocket(s, c) > 0 THEN RemoveAt(s, IndexOfSocket(s, c)) ELSE s

\* Array.prototype.removeIf(function(req) { return req.socket == socket })
RemoveIfSocket(s, c) == SelectSeq(s, LAMBDA h : h.socket # c)

\* pushIfDefined(array, obj)
pushIfDefined(array, obj) == IF obj # NoNonce THEN Append(array, obj) ELSE array

\* ---------------------------------------------------------------- ReaderWriterLock
NewLock == [writer |-> NoWriter, readers |-> <<>>,
            writerQueue |-> <<>>, readerQueue |-> <<>>]

hasRequests(q) == Len(q) > 0

isWriteLocked(L) == L.writer # NoWriter

isReadLocked(L) == Len(L.readers) > 0

\* readers that never look at the writer queue
isReadAvailableGreedy(L) == ~isWriteLocked(L)

isReadAvailable(L) ==
    IF greedy
    THEN ~isWriteLocked(L)
    ELSE ~isWriteLocked(L) /\ ~hasRequests(L.writerQueue)

isAbandoned(L) ==
    /\ ~isWriteLocked(L)
    /\ ~isReadLocked(L)
    /\ ~hasRequests(L.readerQueue)
    /\ ~hasRequests(L.writerQueue)

isSocketReader(L, socket) == \E i \in 1..Len(L.readers) : L.readers[i].socket = socket

\* an upgrade that does not count the readers
isWriteAvailableToAnyReader(L, socket) ==
    IF socket # NoSocket /\ ~isWriteLocked(L) /\ isSocketReader(L, socket)
    THEN TRUE
    ELSE ~(isWriteLocked(L) \/ isReadLocked(L))

\* a write lock that looks at the writer only
isWriteAvailableIgnoringReaders(L, socket) == ~isWriteLocked(L)

isWriteAvailable(L, socket) ==
    IF socket # NoSocket /\ ~isWriteLocked(L) /\ Len(L.readers) = 1
       /\ isSocketReader(L, socket)
    THEN TRUE
    ELSE ~(isWriteLocked(L) \/ isReadLocked(L))

\* ---------------------------------------------------------------- the machine
NoRequest == [socket |-> NoSocket, lockId |-> NoLockId, nonce |-> NoNonce]

\* ret: the value the last call returned (undefined reads as FALSE);
\* found: the request findPendingRequest returned
Machine == [locks |-> locks, lockOrder |-> lockOrder, staleTimers |-> staleTimers,
            closed |-> closed, out |-> <<>>, thrown |-> FALSE, ret |-> FALSE,
            found |-> NoRequest]

Throw(m) == [m EXCEPT !.thrown = TRUE]

Frame(to, status, mode, lockId, nonce) ==
    [to |-> to, status |-> status, mode |-> mode, lockId |-> lockId, nonce |-> nonce]

\* does socket.write(data) on this socket return without throwing
WriteReturns(m, socket) == socket \notin m.closed \/ ~deadWriteThrows

\* socket.write(data), not guarded: a throw leaves the handler
Write(m, frame) ==
    IF m.thrown THEN m
    ELSE IF WriteReturns(m, frame.to)
         THEN [m EXCEPT !.out = Append(@, frame)]
         ELSE Throw(m)

\* writeSafe / writeJsonSafe: the throw is swallowed
writeSafe(m, frame) ==
    IF m.thrown THEN m
    ELSE IF WriteReturns(m, frame.to)
         THEN [m EXCEPT !.out = Append(@, frame)]
         ELSE m

SetLock(m, lockId, L) ==
    IF m.thrown THEN m ELSE [m EXCEPT !.locks = [@ EXCEPT ![lockId] = L]]

\* ---------------------------------------------------------------- LockCollection.getLock
getLock(m, lockId) ==
    IF lockId \in DOMAIN m.locks THEN m
    ELSE [m EXCEPT !.locks = [l \in (DOMAIN @) \cup {lockId} |->
                                 IF l = lockId THEN NewLock ELSE @[l]],
                   !.lockOrder = Append(@, lockId)]

DeleteLock(m, lockId) ==
    [m EXCEPT !.locks = [l \in (DOMAIN @) \ {lockId} |-> @[l]],
              !.lockOrder = SelectSeq(@, LAMBDA l : l # lockId)]

\* a registry that never forgets an entity
cleanupLockNever(m, lockId) == m

cleanupLock(m, lockId) ==
    IF m.thrown THEN m
    ELSE IF lockId \in DOMAIN m.locks /\ isAbandoned(m.locks[lockId])
         THEN DeleteLock(m, lockId)
         ELSE m

\* ---------------------------------------------------------------- LockRequest
\* what a holder entry keeps of a request: blockd.js keeps the socket alone
HolderOf(request) == [socket |-> request.socket, nonce |-> request.nonce]

\* LockRequest.timeout(): "ACQUIRETIMEOUT", written with writeSafe
requestTimeout(m, request) ==
    writeSafe(m, Frame(request.socket, "ACQUIRETIMEOUT", NoMode, request.lockId,
                       pushIfDefined(<<>>, request.nonce)))

\* ---------------------------------------------------------------- lockRead / lockWrite
lockRead(m, lockId, request) ==
    IF m.thrown THEN m
    ELSE LET w == IF rev = "text"
                  THEN Write(m, Frame(request.socket, "LOCKED", "R", lockId, <<>>))
                  ELSE writeSafe(m, Frame(request.socket, "LOCKED", "R", lockId,
                                          pushIfDefined(<<>>, request.nonce)))
         IN  SetLock(w, lockId, [w.locks[lockId] EXCEPT !.readers = Append(@, request)])

lockWrite(m, lockId, request) ==
    IF m.thrown THEN m
    ELSE IF rev = "text"
    THEN LET m1 == SetLock(m, lockId, [m.locks[lockId] EXCEPT
                              !.readers = ArrayRemove(@, request.socket)])
             w == Write(m1, Frame(request.socket, "LOCKED", "W", lockId, <<>>))
         IN  SetLock(w, lockId, [w.locks[lockId] EXCEPT !.writer = request])
    ELSE LET m1 == SetLock(m, lockId, [m.locks[lockId] EXCEPT
                              !.readers = RemoveIfSocket(@, request.socket)])
             w == writeSafe(m1, Frame(request.socket, "LOCKED", "W", lockId,
                                      pushIfDefined(<<>>, request.nonce)))
         IN  IF WriteReturns(m1, request.socket)
             THEN SetLock(w, lockId, [w.locks[lockId] EXCEPT !.writer = request])
             ELSE w

\* ---------------------------------------------------------------- LockRequestQueue.createRequest
\* part_001 hands the lock id string to LockRequest as its args, so the request's
\* lockId and nonce are undefined there.  A request object is identified by its
\* place in its queue (removeRequest finds it with indexOf), and every queued
\* request has its one timer armed: the timer is armed here and the request
\* leaves the queue either when that timer fires or by a grant, after which the
\* timer is stale
createRequest(m, lockId, mode, socket) ==
    IF m.thrown THEN m
    ELSE LET request == [socket |-> socket,
                         lockId |-> IF rev = "text" THEN lockId ELSE NoLockId,
                         nonce |-> NoNonce]
             L == m.locks[lockId]
             L1 == IF mode = "R"
                   THEN [L EXCEPT !.readerQueue = Append(@, request)]
                   ELSE [L EXCEPT !.writerQueue = Append(@, request)]
         IN  SetLock(m, lockId, L1)

\* a queue that hands out its youngest request
findPendingRequestLast(m, lockId, mode) ==
    LET L == m.locks[lockId]
        q == IF mode = "R" THEN L.readerQueue ELSE L.writerQueue
        L1 == IF mode = "R"
              THEN [L EXCEPT !.readerQueue = SubSeq(q, 1, Len(q) - 1)]
              ELSE [L EXCEPT !.writerQueue = SubSeq(q, 1, Len(q) - 1)]
    IN  [SetLock(m, lockId, L1) EXCEPT !.staleTimers = @ + 1, !.found = q[Len(q)]]

\* findPendingRequest(): findAndRemoveIf with a predicate that is always true
\* removes and returns the first request; its timer stays armed
findPendingRequest(m, lockId, mode) ==
    LET L == m.locks[lockId]
        L1 == IF mode = "R"
              THEN [L EXCEPT !.readerQueue = Tail(@)]
              ELSE [L EXCEPT !.writerQueue = Tail(@)]
    IN  [SetLock(m, lockId, L1) EXCEPT
            !.staleTimers = @ + 1,
            !.found = IF mode = "R" THEN Head(L.readerQueue) ELSE Head(L.writerQueue)]

\* ---------------------------------------------------------------- acquireRead / acquireWrite
\* part_001 compares this.writer (a request or null) with the socket: never equal
writerIsSocketForRead(L, socket) ==
    IF rev = "text" THEN L.writer.socket = socket ELSE FALSE

acquireRead(m, lockId, socket, nonce) ==
    LET L == m.locks[lockId] IN
    IF isSocketReader(L, socket) \/ writerIsSocketForRead(L, socket)
    THEN IF rev = "text"
         THEN Write(m, Frame(socket, "LOCKED", "R", lockId, <<>>))
         ELSE Throw(m)   \* part_001:461 reads request.nonce, request is not declared
    ELSE IF isReadAvailable(L)
    THEN lockRead(m, lockId, [socket |-> socket, nonce |-> nonce])
    ELSE IF rev = "text"
         THEN createRequest(writeSafe(m, Frame(socket, "LOCKPENDING", "R", lockId, <<>>)),
                            lockId, "R", socket)
         ELSE \* part_001:485 reads timeout, which is not declared
              Throw(writeSafe(m, Frame(socket, "LOCKPENDING", "R", lockId,
                                       pushIfDefined(<<>>, nonce))))

acquireWrite(m, lockId, socket, nonce) ==
    LET L == m.locks[lockId] IN
    IF L.writer.socket = socket
    THEN IF rev = "text"
         THEN Write(m, Frame(socket, "LOCKED", "W", lockId, <<>>))
         ELSE writeSafe(m, Frame(socket, "LOCKED", "W", lockId, pushIfDefined(<<>>, nonce)))
    ELSE IF isWriteAvailable(L, socket)
    THEN lockWrite(m, lockId, [socket |-> socket, nonce |-> nonce])
    ELSE createRequest(
            writeSafe(m, Frame(socket, "LOCKPENDING", "W", lockId,
                               IF rev = "text" THEN <<>> ELSE pushIfDefined(<<>>, nonce))),
            lockId, "W", socket)

\* ---------------------------------------------------------------- abdicateLock
\* an abdication that grants the first queued reader and no more
grantReadersOne(m, lockId) ==
    IF m.thrown THEN m
    ELSE LET L == m.locks[lockId] IN
         IF hasRequests(L.readerQueue) /\ isReadAvailable(L)
         THEN LET m1 == findPendingRequest(m, lockId, "R")
              IN  lockRead(m1, lockId, HolderOf(m1.found))
         ELSE m

RECURSIVE grantReaders(_, _)
grantReaders(m, lockId) ==
    IF m.thrown THEN m
    ELSE LET L == m.locks[lockId] IN
         IF hasRequests(L.readerQueue) /\ isReadAvailable(L)
         THEN LET m1 == findPendingRequest(m, lockId, "R")
              IN  grantReaders(lockRead(m1, lockId, HolderOf(m1.found)), lockId)
         ELSE m

\* an abdication that hands the write lock to every queued writer in turn
RECURSIVE grantWritersAll(_, _)
grantWritersAll(m, lockId) ==
    IF m.thrown THEN m
    ELSE LET L == m.locks[lockId] IN
         IF hasRequests(L.writerQueue)
                /\ (isWriteAvailable(L, NoSocket) \/ isWriteLocked(L))
         THEN LET m1 == findPendingRequest(m, lockId, "W")
              IN  grantWritersAll(lockWrite(m1, lockId, HolderOf(m1.found)), lockId)
         ELSE m

\* blockd.js grants one writer (if); part_001 loops (while)
RECURSIVE grantWriters(_, _)
grantWriters(m, lockId) ==
    IF m.thrown THEN m
    ELSE LET L == m.locks[lockId] IN
         IF hasRequests(L.writerQueue) /\ isWriteAvailable(L, NoSocket)
         THEN LET m1 == findPendingRequest(m, lockId, "W")
                  m2 == lockWrite(m1, lockId, HolderOf(m1.found))
              IN  IF rev = "text" THEN m2 ELSE grantWriters(m2, lockId)
         ELSE m

\* an abdication that serves the reader queue alone
abdicateLockReadersOnly(m, lockId) == grantReaders(m, lockId)

abdicateLock(m, lockId) == grantWriters(grantReaders(m, lockId), lockId)

\* ---------------------------------------------------------------- ReaderWriterLock.release
\* blockd.js:475-518.  m.ret is the value returned (undefined reads as FALSE)
releaseText(m, lockId, socket, reportNoLocks) ==
    LET L == m.locks[lockId]
        wasWriter == L.writer.socket = socket
        m1 == IF wasWriter
              THEN writeSafe(SetLock(m, lockId, [L EXCEPT !.writer = NoWriter]),
                             Frame(socket, "RELEASED", NoMode, lockId, <<>>))
              ELSE m
        L1 == m1.locks[lockId]
        wasReader == isSocketReader(L1, socket)
        m2 == IF wasReader
              THEN writeSafe(SetLock(m1, lockId,
                                     [L1 EXCEPT !.readers = ArrayRemove(@, socket)]),
                             Frame(socket, "RELEASED", NoMode, lockId, <<>>))
              ELSE m1
        someLockReleased == wasWriter \/ wasReader
    IN  IF ~someLockReleased /\ reportNoLocks
        THEN [writeSafe(m2, Frame(socket, "NOLOCKTORELEASE", NoMode, lockId, <<>>))
                 EXCEPT !.ret = FALSE]
        ELSE [abdicateLock(m2, lockId) EXCEPT !.ret = someLockReleased]

\* part_001:581-658.  The reader branch removes nothing (its predicate returns
\* undefined) and writes to this.writer.socket, a TypeError when writer is null;
\* the NOLOCKTORELEASE frame is handed to writeJsonSafe without a socket and
\* never written
releaseJson(m, lockId, socket, nonce, reportNoLocks) ==
    LET L == m.locks[lockId]
        wasWriter == isWriteLocked(L) /\ L.writer.socket = socket
        m1 == IF wasWriter
              THEN SetLock(writeSafe(m, Frame(L.writer.socket, "RELEASED", "W", lockId,
                                 pushIfDefined(pushIfDefined(<<>>, L.writer.nonce), nonce))),
                           lockId, [L EXCEPT !.writer = NoWriter])
              ELSE m
        L1 == m1.locks[lockId]
        wasReader == isSocketReader(L1, socket)
        m2 == IF wasReader
              THEN IF isWriteLocked(L1)
                   THEN writeSafe(m1, Frame(L1.writer.socket, "RELEASED", "R", lockId,
                                            pushIfDefined(<<>>, nonce)))
                   ELSE Throw(m1)
              ELSE m1
        someLockReleased == wasWriter \/ wasReader
    IN  IF m2.thrown THEN m2
        ELSE IF ~someLockReleased /\ reportNoLocks
        THEN [m2 EXCEPT !.ret = FALSE]
        ELSE [abdicateLock(m2, lockId) EXCEPT !.ret = someLockReleased]

\* a release that also takes the requests of the socket out of the queues
lockReleaseCancelling(m, lockId, socket, nonce, reportNoLocks) ==
    LET L == m.locks[lockId]
        m0 == SetLock(m, lockId, [L EXCEPT !.readerQueue = RemoveIfSocket(@, socket),
                                           !.writerQueue = RemoveIfSocket(@, socket)])
    IN  IF m.thrown THEN m
        ELSE IF rev = "text"
             THEN releaseText(m0, lockId, socket, reportNoLocks)
             ELSE releaseJson(m0, lockId, socket, nonce, reportNoLocks)

lockRelease(m, lockId, socket, nonce, reportNoLocks) ==
    IF m.thrown THEN m
    ELSE IF rev = "text"
         THEN releaseText(m, lockId, socket, reportNoLocks)
         ELSE releaseJson(m, lockId, socket, nonce, reportNoLocks)

\* ---------------------------------------------------------------- LockCollection
collectionAcquire(m, socket, lockId, mode, nonce) ==
    IF mode = "W"
    THEN acquireWrite(getLock(m, lockId), lockId, socket, nonce)
    ELSE acquireRead(getLock(m, lockId), lockId, socket, nonce)

collectionRelease(m, socket, lockId, nonce) ==
    cleanupLock(lockRelease(getLock(m, lockId), lockId, socket, nonce, TRUE), lockId)

\* for(var lockId in this.locks): the keys in insertion order; released says
\* whether some lock reported a release so far
RECURSIVE releaseEach(_, _, _, _, _)
releaseEach(m, ids, socket, nonce, released) ==
    IF m.thrown THEN m
    ELSE IF ids = <<>> THEN [m EXCEPT !.ret = released]
    ELSE LET lockId == Head(ids)
             m1 == lockRelease(m, lockId, socket, nonce, FALSE)
             m2 == IF ~m1.thrown /\ isAbandoned(m1.locks[lockId])
                   THEN DeleteLock(m1, lockId) ELSE m1
         IN  releaseEach(m2, Tail(ids), socket, nonce, released \/ m1.ret)

\* blockd.js:639-657 reports whenever nothing was released; part_001:787-809
\* only when reportNoLocks
collectionReleaseAll(m, socket, nonce, reportNoLocks) ==
    LET m1 == releaseEach(m, m.lockOrder, socket, nonce, FALSE)
    IN  IF m1.thrown THEN m1
        ELSE IF ~m1.ret /\ (rev = "text" \/ reportNoLocks)
        THEN writeSafe(m1, Frame(socket, "NOLOCKSTORELEASEALL", NoMode, NoLockId,
                                 pushIfDefined(<<>>, nonce)))
        ELSE m1

\* ---------------------------------------------------------------- the timer of createRequest
\* a timer that hands the lock to its request without looking whether the
\* lock is available
timerCallbackGranting(m, lockId, mode, i) ==
    LET L == m.locks[lockId]
        request == IF mode = "R" THEN L.readerQueue[i] ELSE L.writerQueue[i]
        L1 == IF mode = "R"
              THEN [L EXCEPT !.readerQueue = RemoveAt(@, i)]
              ELSE [L EXCEPT !.writerQueue = RemoveAt(@, i)]
        m1 == SetLock(m, lockId, L1)
    IN  IF mode = "R" THEN lockRead(m1, lockId, HolderOf(request))
                      ELSE lockWrite(m1, lockId, HolderOf(request))

\* The timer of the request at place i of a queue fires: removeRequest succeeds
\* and the callback runs.  It calls this.lockRead / this.lockWrite with this not
\* bound to the lock: a TypeError
timerCallback(m, lockId, mode, i) ==
    LET L == m.locks[lockId]
        request == IF mode = "R" THEN L.readerQueue[i] ELSE L.writerQueue[i]
        L1 == IF mode = "R"
              THEN [L EXCEPT !.readerQueue = RemoveAt(@, i)]
              ELSE [L EXCEPT !.writerQueue = RemoveAt(@, i)]
        m1 == SetLock(m, lockId, L1)
        available == IF mode = "R"
                     THEN isReadAvailable(L1)
                     ELSE isWriteAvailable(L1, NoSocket)
    IN  IF available THEN Throw(m1) ELSE requestTimeout(m1, request)

\* a timer that does not look whether its request is still queued and times
\* it out
staleTimerCallbackUnchecked(m) ==
    requestTimeout([m EXCEPT !.staleTimers = @ - 1], NoRequest)

\* The timer of a request that left its queue by a grant fires: indexOf finds
\* nothing, removeRequest returns false and the callback returns
staleTimerCallback(m) == [m EXCEPT !.staleTimers = @ - 1]

\* the number of armed timers: one per queued request, and the stale ones
RECURSIVE QueuedIn(_, _)
QueuedIn(m, ids) ==
    IF ids = <<>> THEN 0
    ELSE Len(m.locks[Head(ids)].readerQueue) + Len(m.locks[Head(ids)].writerQueue)
         + QueuedIn(m, Tail(ids))

ArmedTimers(m) == QueuedIn(m, m.lockOrder) + m.staleTimers

\* ---------------------------------------------------------------- handlers
Event(op, conn, lockId, mode, nonce, req) ==
    [op |-> op, conn |-> conn, lockId |-> lockId, mode |-> mode, nonce |-> nonce,
     req |-> req]

Handled(m, ev) ==
    /\ locks' = m.locks
    /\ lockOrder' = m.lockOrder
    /\ staleTimers' = m.staleTimers
    /\ closed' = m.closed
    /\ crashed' = m.thrown
    /\ out' = m.out
    /\ last' = ev
    /\ pre' = locks
    /\ UNCHANGED <<rev, greedy, deadWriteThrows>>

NoncesOf(set) == IF rev = "text" THEN {NoNonce} ELSE set

\* onSocketData, ACQUIRE
Acquire(c, lockId, mode, maxTimers) ==
    /\ ~crashed /\ c \notin closed
    /\ \E nonce \in NoncesOf(AcquireNonces) :
          LET m == collectionAcquire(Machine, c, lockId, mode, nonce)
          IN  /\ ArmedTimers(m) <= maxTimers
              /\ Handled(m, Event("acquire", c, lockId, mode, nonce, 0))

\* onSocketData, RELEASE
Release(c, lockId) ==
    /\ ~crashed /\ c \notin closed
    /\ \E nonce \in NoncesOf(ReleaseNonces) :
          Handled(collectionRelease(Machine, c, lockId, nonce),
                  Event("release", c, lockId, NoMode, nonce, 0))

\* onSocketData, RELEASEALL
ReleaseAll(c) ==
    /\ ~crashed /\ c \notin closed
    /\ \E nonce \in NoncesOf(ReleaseNonces) :
          Handled(collectionReleaseAll(Machine, c, nonce, TRUE),
                  Event("releaseAll", c, NoLockId, NoMode, nonce, 0))

\* socket.on("end"): onSocketDisconnect
Disconnect(c) ==
    /\ ~crashed /\ c \notin closed
    /\ Handled(collectionReleaseAll([Machine EXCEPT !.closed = @ \cup {c}],
                                    c, NoNonce, TRUE),
               Event("disconnect", c, NoLockId, NoMode, NoNonce, 0))

\* the setTimeout callback of createRequest, its request still queued
TimerFire(lockId, mode, i) ==
    /\ ~crashed /\ lockId \in DOMAIN locks
    /\ i \in 1..Len(IF mode = "R" THEN locks[lockId].readerQueue
                                   ELSE locks[lockId].writerQueue)
    /\ Handled(timerCallback(Machine, lockId, mode, i),
               Event("timer", NoSocket, lockId, mode, NoNonce, i))

\* the setTimeout callback of createRequest, its request no longer queued
StaleTimerFire ==
    /\ ~crashed /\ staleTimers > 0
    /\ Handled(staleTimerCallback(Machine),
               Event("staleTimer", NoSocket, NoLockId, NoMode, NoNonce, 0))

Init ==
    /\ rev \in {"text", "json"}
    /\ greedy \in BOOLEAN
    /\ deadWriteThrows \in BOOLEAN
    /\ locks = <<>>
    /\ lockOrder = <<>>
    /\ staleTimers = 0
    /\ closed = {}
    /\ crashed = FALSE
    /\ out = <<>>
    /\ last = Event("start", NoSocket, NoLockId, NoMode, NoNonce, 0)
    /\ pre = <<>>

Next ==
    \/ \E c \in Conns, lockId \in LockIds, mode \in {"R", "W"} :
          Acquire(c, lockId, mode, MaxTimers)
    \/ \E c \in Conns, lockId \in LockIds : Release(c, lockId)
    \/ \E c \in Conns : ReleaseAll(c)
    \/ \E c \in Conns : Disconnect(c)
    \/ \E lockId \in LockIds, mode \in {"R", "W"}, i \in 1..MaxTimers :
          TimerFire(lockId, mode, i)
    \/ StaleTimerFire

Spec == Init /\ [][Next]_vars

\* ---------------------------------------------------------------- the other commands
\* a SHOW frame: its locks are the ids of the registry's entities, in key order
ShowFrame(to, lockList, nonce) ==
    [to |-> to, status |-> "SHOW", mode |-> NoMode, lockId |-> NoLockId,
     nonce |-> nonce, locks |-> lockList]

\* a show that lists every lock id it knows of
collectionShowAll(m, socket, nonce) ==
    writeSafe(m, ShowFrame(socket, <<"X">>, pushIfDefined(<<>>, nonce)))

\* LockCollection.show with the write of LockInterface: for(lockId in this.locks)
collectionShow(m, socket, nonce) ==
    writeSafe(m, ShowFrame(socket, m.lockOrder, pushIfDefined(<<>>, nonce)))

\* the default branch of the switch: blockd.js writes with socket.write
commandNotFound(m, socket, nonce) ==
    IF rev = "text"
    THEN Write(m, Frame(socket, "COMMANDNOTFOUND", NoMode, NoLockId, <<>>))
    ELSE writeSafe(m, Frame(socket, "COMMANDNOTFOUND", NoMode, NoLockId,
                            pushIfDefined(<<>>, nonce)))

\* ACQUIRE without a lock id
cannotAcquire(m, socket, nonce) ==
    IF rev = "text"
    THEN Write(m, Frame(socket, "CANNOTACQUIREINVALIDLOCKID", NoMode, NoLockId, <<>>))
    ELSE writeSafe(m, Frame(socket, "CANNOTACQUIREINVALIDLOCKID", NoMode, NoLockId,
                            pushIfDefined(<<>>, nonce)))

\* the frames that name no command of the protocol: a word, and the JSON text
\* null.  part_001 reads args.command of what JSON.parse returned: for null a
\* TypeError, which nothing catches
UnknownFrames == {"bogus", "null"}

unknownCommand(m, socket, frame, nonce) ==
    IF rev = "json" /\ frame = "null" THEN Throw(m) ELSE commandNotFound(m, socket, nonce)

\* endSafe / endJsonSafe on a socket that is open: the frame is written and
\* the socket ended
endSafe(m, frame) ==
    IF m.thrown THEN m
    ELSE [m EXCEPT !.out = Append(@, frame), !.closed = @ \cup {frame.to}]

\* LockInterface.quit of part_001: releaseAll without the report, then
\* removeAllListeners and end(GOINPIECES) with nonce [nonce]; blockd.js has no
\* QUIT and answers COMMANDNOTFOUND
quit(m, socket, nonce) ==
    IF rev = "text" THEN commandNotFound(m, socket, nonce)
    ELSE endSafe(collectionReleaseAll(m, socket, nonce, FALSE),
                 Frame(socket, "GOINPIECES", NoMode, NoLockId, <<nonce>>))

\* onSocketData, SHOW
Show(c) ==
    /\ ~crashed /\ c \notin closed
    /\ \E nonce \in NoncesOf(ReleaseNonces) :
          Handled(collectionShow(Machine, c, nonce),
                  Event("show", c, NoLockId, NoMode, nonce, 0))

\* onSocketData, a frame that names no command
Unknown(c, frame) ==
    /\ ~crashed /\ c \notin closed
    /\ Handled(unknownCommand(Machine, c, frame, NoNonce),
               Event("unknown", c, NoLockId, NoMode, NoNonce, 0))

\* onSocketData, the frame "lock <lockId>" of the README: LOCK is no case of the
\* switch in either revision
LockFrame(c, lockId) ==
    /\ ~crashed /\ c \notin closed
    /\ Handled(commandNotFound(Machine, c, NoNonce),
               Event("lock", c, lockId, NoMode, NoNonce, 0))

\* onSocketData, ACQUIRE without a lock id
AcquireNoLockId(c) ==
    /\ ~crashed /\ c \notin closed
    /\ \E nonce \in NoncesOf(AcquireNonces) :
          Handled(cannotAcquire(Machine, c, nonce),
                  Event("acquireNoLockId", c, NoLockId, NoMode, nonce, 0))

\* onSocketData, QUIT
Quit(c) ==
    /\ ~crashed /\ c \notin closed
    /\ \E nonce \in NoncesOf(ReleaseNonces) :
          Handled(quit(Machine, c, nonce),
                  Event("quit", c, NoLockId, NoMode, nonce, 0))

\* every command of the dispatcher
NextAll ==
    \/ \E c \in Conns, lockId \in LockIds, mode \in {"R", "W"} :
          Acquire(c, lockId, mode, MaxTimers)
    \/ \E c \in Conns, lockId \in LockIds : Release(c, lockId)
    \/ \E c \in Conns : ReleaseAll(c)
    \/ \E c \in Conns : Disconnect(c)
    \/ \E lockId \in LockIds, mode \in {"R", "W"}, i \in 1..MaxTimers :
          TimerFire(lockId, mode, i)
    \/ StaleTimerFire
    \/ \E c \in Conns : Show(c)
    \/ \E c \in Conns, frame \in UnknownFrames : Unknown(c, frame)
    \/ \E c \in Conns, lockId \in LockIds : LockFrame(c, lockId)
    \/ \E c \in Conns : AcquireNoLockId(c)
    \/ \E c \in Conns : Quit(c)

SpecAll == Init /\ [][NextAll]_vars

\* no socket ends in SpecThree, so no write is made to an ended socket
InitThree == Init /\ deadWriteThrows = FALSE

NextThree ==
    \/ \E c \in Conns3, lockId \in LockIds, mode \in {"R", "W"} :
          Acquire(c, lockId, mode, MaxTimers3)
    \/ \E c \in Conns3, lockId \in LockIds : Release(c, lockId)
    \/ \E lockId \in LockIds, mode \in {"R", "W"}, i \in 1..MaxTimers3 :
          TimerFire(lockId, mode, i)
    \/ StaleTimerFire

SpecThree == InitThree /\ [][NextThree]_vars

\* two sockets and two locks, neither socket releasing or disconnecting, so
\* that each can hold what the other waits for until the deadlines
NextTwoLocks ==
    \/ \E c \in Conns, lockId \in LockIds2, mode \in {"R", "W"} :
          Acquire(c, lockId, mode, MaxTimers2)
    \/ \E lockId \in LockIds2, mode \in {"R", "W"}, i \in 1..MaxTimers2 :
          TimerFire(lockId, mode, i)

SpecTwoLocks == InitThree /\ [][NextTwoLocks]_vars

\* three sockets with every event, their ends included
NextThreeAll ==
    \/ \E c \in Conns3, lockId \in LockIds, mode \in {"R", "W"} :
          Acquire(c, lockId, mode, MaxTimers3)
    \/ \E c \in Conns3, lockId \in LockIds : Release(c, lockId)
    \/ \E c \in Conns3 : ReleaseAll(c)
    \/ \E c \in Conns3 : Disconnect(c)
    \/ \E lockId \in LockIds, mode \in {"R", "W"}, i \in 1..MaxTimers3 :
          TimerFire(lockId, mode, i)
    \/ StaleTimerFire

SpecThreeAll == Init /\ [][NextThreeAll]_vars

\* ================================================================ claims
\* the sockets of a sequence of holders or requests
SocketsOf(s) == {s[i].socket : i \in 1..Len(s)}

Occurrences(s, c) == Cardinality({i \in 1..Len(s) : s[i].socket = c})

Holds(L, c) == L.writer.socket = c \/ isSocketReader(L, c)

Queued(L, c) == c \in SocketsOf(L.readerQueue) \cup SocketsOf(L.writerQueue)

\* C1: mutual exclusion.  In every reachable state, no lock of the registry has
\* a writer and a non-empty readers array at the same time.
C1_Mutex ==
    \A l \in DOMAIN locks : ~(isWriteLocked(locks[l]) /\ isReadLocked(locks[l]))

\* a release handed a lock that had readers over to a queued writer
C1_Witness ==
    /\ ~crashed
    /\ last.op = "release"
    /\ last.lockId \in DOMAIN locks /\ last.lockId \in DOMAIN pre
    /\ isReadLocked(pre[last.lockId])
    /\ hasRequests(pre[last.lockId].writerQueue)
    /\ isWriteLocked(locks[last.lockId])

\* C2: disconnect purge.  When the "end" event of connection c has been handled,
\* c is the writer of no lock, a reader of no lock, and has no request in any
\* reader queue or writer queue.
C2_DisconnectPurge ==
    (last.op = "disconnect" /\ ~crashed) =>
        \A l \in DOMAIN locks : ~Holds(locks[l], last.conn) /\ ~Queued(locks[l], last.conn)

\* C3: grants are bounded by the connection's lifetime.  No lock is ever held
\* (as writer or as reader) by a connection whose disconnect has been handled.
C3_NoGrantAfterDisconnect ==
    ~crashed => \A l \in DOMAIN locks : \A c \in closed : ~Holds(locks[l], c)

\* C4: no duplicate holding.  Between handlers, every connection occurs at most
\* once in the readers of a lock and is never both its writer and a reader.
C4_NoDuplicateHolding ==
    ~crashed =>
        \A l \in DOMAIN locks : \A c \in Conns :
            /\ Occurrences(locks[l].readers, c) <= 1
            /\ ~(locks[l].writer.socket = c /\ isSocketReader(locks[l], c))

\* C5: registry cleanup.  Between handlers, every entity of the registry has a
\* writer, a reader or a queued request.
C5_NoAbandonedEntity ==
    ~crashed => \A l \in DOMAIN locks : ~isAbandoned(locks[l])

\* a release by the last holder of a lock without waiters removed the entity
C5_Witness ==
    /\ ~crashed
    /\ last.op = "release"
    /\ last.lockId \in DOMAIN pre
    /\ Holds(pre[last.lockId], last.conn)
    /\ last.lockId \notin DOMAIN locks

\* the entity of lock l in registry reg; a fresh one when reg has none
EntityIn(reg, l) == IF l \in DOMAIN reg THEN reg[l] ELSE NewLock

QueueOf(L, mode) == IF mode = "R" THEN L.readerQueue ELSE L.writerQueue

\* the frames of the last handler with this status and mode, in order
FramesOf(status, mode) == SelectSeq(out, LAMBDA f : f.status = status /\ f.mode = mode)

\* C6: timeout liveness.  When the timer of a still queued request has been
\* handled, the request is out of its queue and is resolved: its socket was
\* granted the lock or was sent ACQUIRETIMEOUT (nothing can be sent to a socket
\* that has ended).
C6_TimerResolves ==
    last.op = "timer" =>
        LET before == QueueOf(pre[last.lockId], last.mode)
            after == QueueOf(EntityIn(locks, last.lockId), last.mode)
            request == before[last.req]
        IN  /\ after = RemoveAt(before, last.req)
            /\ ~crashed
            /\ \/ request.socket \in closed
               \/ \E i \in 1..Len(out) :
                     /\ out[i].to = request.socket
                     /\ out[i].status \in {"ACQUIRETIMEOUT", "LOCKED"}

\* the requests that left the queue of this mode in the last handler are its
\* first ones, and the LOCKED frames of this mode went to them in queue order
GrantsInOrder(mode) ==
    LET before == QueueOf(EntityIn(pre, last.lockId), mode)
        after == QueueOf(EntityIn(locks, last.lockId), mode)
        k == Len(before) - Len(after)
        granted == FramesOf("LOCKED", mode)
    IN  /\ k >= 0
        /\ after = SubSeq(before, k + 1, Len(before))
        /\ Len(granted) = k
        /\ \A i \in 1..k : granted[i].to = before[i].socket

\* C7: FIFO within a waiter class.  A handler that grants queued requests grants
\* them from the head of the queue, in queue order: the requests that have left
\* a queue are its first ones, the LOCKED frames of that mode go to their
\* sockets in that order, and the rest of the queue keeps its order; an acquire
\* adds its request at the tail.
C7_Fifo ==
    /\ (last.op = "release" /\ ~crashed) => GrantsInOrder("R") /\ GrantsInOrder("W")
    /\ (last.op = "acquire" /\ ~crashed) =>
          \A mode \in {"R", "W"} :
             LET before == QueueOf(EntityIn(pre, last.lockId), mode)
                 after == QueueOf(EntityIn(locks, last.lockId), mode)
             IN  \/ after = before
                 \/ /\ Len(after) = Len(before) + 1
                    /\ SubSeq(after, 1, Len(before)) = before
                    /\ after[Len(after)].socket = last.conn

\* a release granted the first of two queued writers of different sockets and
\* left the second one queued
C7_Witness ==
    /\ ~crashed
    /\ last.op = "release"
    /\ last.lockId \in DOMAIN locks
    /\ LET before == pre[last.lockId].writerQueue
       IN  /\ Len(before) = 2
           /\ before[1].socket # before[2].socket
           /\ locks[last.lockId].writer.socket = before[1].socket
           /\ locks[last.lockId].writerQueue = <<before[2]>>

\* C8: idempotent re-acquire.  An acquire for read by a connection that is a
\* reader or the writer of the lock, and an acquire for write by its writer, is
\* answered with one LOCKED frame of the requested mode and changes nothing.
C8_IdempotentReacquire ==
    (/\ last.op = "acquire"
     /\ last.lockId \in DOMAIN pre
     /\ \/ last.mode = "R" /\ Holds(pre[last.lockId], last.conn)
        \/ last.mode = "W" /\ pre[last.lockId].writer.socket = last.conn)
    => /\ ~crashed
       /\ locks = pre
       /\ Len(out) = 1
       /\ out[1].to = last.conn
       /\ out[1].status = "LOCKED"
       /\ out[1].mode = last.mode

\* C9: upgrade.  An acquire for write by the connection that is the only reader
\* of a lock without writer is granted at once, whatever the queues hold: the
\* readers become empty, the connection the writer, the queues stay, and one
\* LOCKED W frame goes to the connection.
C9_Upgrade ==
    (/\ last.op = "acquire" /\ last.mode = "W"
     /\ last.lockId \in DOMAIN pre
     /\ ~isWriteLocked(pre[last.lockId])
     /\ SocketsOf(pre[last.lockId].readers) = {last.conn})
    => /\ ~crashed
       /\ last.lockId \in DOMAIN locks
       /\ locks[last.lockId].readers = <<>>
       /\ locks[last.lockId].writer.socket = last.conn
       /\ locks[last.lockId].readerQueue = pre[last.lockId].readerQueue
       /\ locks[last.lockId].writerQueue = pre[last.lockId].writerQueue
       /\ Len(out) = 1
       /\ out[1].to = last.conn /\ out[1].status = "LOCKED" /\ out[1].mode = "W"

\* a RELEASED frame to c; blockd.js sends "RELEASED <lockId>" without a mode
ReleasedFrameTo(c, mode) ==
    \E i \in 1..Len(out) :
        /\ out[i].to = c
        /\ out[i].status = "RELEASED"
        /\ out[i].mode = IF rev = "text" THEN NoMode ELSE mode

\* C10: release by a holder.  A release by the writer of the lock clears the
\* writer and sends RELEASED to the releasing connection (with mode W where the
\* protocol carries a mode); a release by a reader removes it from the readers
\* and sends RELEASED (mode R); afterwards the connection holds the lock no more
\* (unless the same handler grants it a request of its own that was queued).
C10_ReleaseByHolder ==
    (/\ last.op = "release"
     /\ last.lockId \in DOMAIN pre
     /\ Holds(pre[last.lockId], last.conn))
    => /\ ~crashed
       /\ \/ ~Holds(EntityIn(locks, last.lockId), last.conn)
          \/ \E i \in 1..Len(out) : out[i].to = last.conn /\ out[i].status = "LOCKED"
       /\ pre[last.lockId].writer.socket = last.conn => ReleasedFrameTo(last.conn, "W")
       /\ isSocketReader(pre[last.lockId], last.conn) => ReleasedFrameTo(last.conn, "R")

\* frame f is a RELEASED frame to c (of this mode where the protocol has one)
IsReleased(f, c, mode) ==
    /\ f.to = c
    /\ f.status = "RELEASED"
    /\ f.mode = IF rev = "text" THEN NoMode ELSE mode

\* frame f is a LOCKED frame of this mode to c
IsLocked(f, c, mode) == f.to = c /\ f.status = "LOCKED" /\ f.mode = mode

\* C11: write hand-off on release.  When the writer of a lock releases it while
\* the write request of another connection is at the head of the writer queue
\* and no reader is queued, the handler sends RELEASED (W) to the releaser, then
\* LOCKED W to the waiting connection, which is the writer afterwards.
C11_WriteHandOff ==
    (/\ last.op = "release"
     /\ last.lockId \in DOMAIN pre
     /\ pre[last.lockId].writer.socket = last.conn
     /\ pre[last.lockId].readerQueue = <<>>
     /\ pre[last.lockId].writerQueue # <<>>
     /\ pre[last.lockId].writerQueue[1].socket # last.conn)
    => LET next == pre[last.lockId].writerQueue[1].socket
       IN  /\ ~crashed
           /\ Len(out) = 2
           /\ IsReleased(out[1], last.conn, "W")
           /\ IsLocked(out[2], next, "W")
           /\ EntityIn(locks, last.lockId).writer.socket = next
           /\ EntityIn(locks, last.lockId).writerQueue = Tail(pre[last.lockId].writerQueue)

\* C12: non-greedy hand-off.  With greedy readers off, when the only reader of
\* a lock releases it while one write request of a second connection and one
\* read request of a third are queued, the handler sends RELEASED (R) to the
\* releaser, makes the second connection the writer with LOCKED W, and leaves
\* the read request of the third queued and ungranted.
C12_NonGreedyHandOff ==
    (/\ ~greedy
     /\ last.op = "release"
     /\ last.lockId \in DOMAIN pre
     /\ ~isWriteLocked(pre[last.lockId])
     /\ Len(pre[last.lockId].readers) = 1
     /\ pre[last.lockId].readers[1].socket = last.conn
     /\ Len(pre[last.lockId].writerQueue) = 1
     /\ Len(pre[last.lockId].readerQueue) = 1
     /\ Cardinality({last.conn, pre[last.lockId].writerQueue[1].socket,
                     pre[last.lockId].readerQueue[1].socket}) = 3)
    => LET L == EntityIn(locks, last.lockId)
           c2 == pre[last.lockId].writerQueue[1].socket
       IN  /\ ~crashed
           /\ Len(out) = 2
           /\ IsReleased(out[1], last.conn, "R")
           /\ IsLocked(out[2], c2, "W")
           /\ L.writer.socket = c2
           /\ L.readers = <<>>
           /\ L.writerQueue = <<>>
           /\ L.readerQueue = pre[last.lockId].readerQueue

\* C13: no reader barging in non-greedy mode.  With greedy readers off, a handler
\* that finds the writer queue of a lock non-empty adds no connection to the
\* readers of that lock, whatever the handler is.
C13_NoReaderBarging ==
    ~greedy =>
        \A l \in DOMAIN pre :
            pre[l].writerQueue # <<>> =>
                \A c \in Conns3 :
                    Occurrences(EntityIn(locks, l).readers, c) <= Occurrences(pre[l].readers, c)

\* an acquire for read found no writer but a waiting writer, and was queued
C13_Witness ==
    /\ ~greedy /\ ~crashed
    /\ last.op = "acquire" /\ last.mode = "R"
    /\ last.lockId \in DOMAIN pre /\ last.lockId \in DOMAIN locks
    /\ ~isWriteLocked(pre[last.lockId])
    /\ pre[last.lockId].writerQueue # <<>>
    /\ Len(locks[last.lockId].readerQueue) = Len(pre[last.lockId].readerQueue) + 1
    /\ locks[last.lockId].readers = pre[last.lockId].readers

\* C14: the disconnect of a holder promotes the waiter.  When the writer of a
\* lock disconnects while the write request of another connection is the only
\* queued request, the handler makes that connection the writer, sends it
\* LOCKED W, and leaves it alone in the entity.
C14_DisconnectPromotes ==
    last.op = "disconnect" =>
        \A l \in DOMAIN pre :
            (/\ pre[l].writer.socket = last.conn
             /\ pre[l].readerQueue = <<>>
             /\ Len(pre[l].writerQueue) = 1
             /\ pre[l].writerQueue[1].socket # last.conn)
            => LET c2 == pre[l].writerQueue[1].socket
                   L == EntityIn(locks, l)
               IN  /\ ~crashed
                   /\ L.writer.socket = c2
                   /\ L.readers = <<>> /\ L.readerQueue = <<>> /\ L.writerQueue = <<>>
                   /\ \E i \in 1..Len(out) : IsLocked(out[i], c2, "W")

\* C15: timer expiry of a queued request.  When the timer of a request fires
\* while the request is in its queue, the request leaves the queue, its
\* connection is sent ACQUIRETIMEOUT and nothing else is sent (nothing can be
\* sent to a socket that has ended), and the writer and the readers of the lock
\* stay as they were.
C15_TimerExpiry ==
    last.op = "timer" =>
        LET before == QueueOf(pre[last.lockId], last.mode)
            L == EntityIn(locks, last.lockId)
        IN  /\ ~crashed
            /\ QueueOf(L, last.mode) = RemoveAt(before, last.req)
            /\ \/ before[last.req].socket \in closed
               \/ /\ Len(out) = 1
                  /\ out[1].to = before[last.req].socket
                  /\ out[1].status = "ACQUIRETIMEOUT"
            /\ L.writer = pre[last.lockId].writer
            /\ L.readers = pre[last.lockId].readers

C17_ReleaseKeepsPending ==
    /\ (/\ last.op = "release"
        /\ last.lockId \in DOMAIN pre
        /\ ~Holds(pre[last.lockId], last.conn)
        /\ Queued(pre[last.lockId], last.conn))
       => /\ ~crashed
          /\ EntityIn(locks, last.lockId).readerQueue = pre[last.lockId].readerQueue
          /\ EntityIn(locks, last.lockId).writerQueue = pre[last.lockId].writerQueue
    /\ \A l \in DOMAIN pre : \A mode \in {"R", "W"} :
          Len(QueueOf(EntityIn(locks, l), mode)) < Len(QueueOf(pre[l], mode))
          => \/ last.op \in {"timer", "releaseAll", "disconnect"}
             \/ last.op = "release" /\ Holds(pre[l], last.conn)

\* a connection with a queued request and no hold released the lock
C17_Witness ==
    /\ ~crashed
    /\ last.op = "release"
    /\ last.lockId \in DOMAIN pre
    /\ ~Holds(pre[last.lockId], last.conn)
    /\ Queued(pre[last.lockId], last.conn)
    /\ locks = pre

\* C18: unknown release.  A RELEASE of a lock id that has no entity in the
\* registry is answered with one NOLOCKTORELEASE frame to the connection, and
\* the registry has no entity for the id afterwards.
C18_UnknownRelease ==
    (last.op = "release" /\ last.lockId \notin DOMAIN pre)
    => /\ ~crashed
       /\ last.lockId \notin DOMAIN locks
       /\ Len(out) = 1
       /\ out[1].to = last.conn
       /\ out[1].status = "NOLOCKTORELEASE"
       /\ out[1].lockId = last.lockId

\* C19: silent disconnect cleanup.  The handler of the end of a connection
\* sends no frame to that connection.
C19_SilentDisconnect ==
    last.op = "disconnect" => \A i \in 1..Len(out) : out[i].to # last.conn

\* the number of frames of the last handler with this status
CountStatus(status) == Cardinality({i \in 1..Len(out) : out[i].status = status})

\* C20: RELEASEALL.  A RELEASEALL of a connection releases every lock it holds
\* (it holds none afterwards, unless the handler grants it a queued request of
\* its own), sends no NOLOCKTORELEASE, leaves no abandoned entity, and sends one
\* NOLOCKSTORELEASEALL when it held no lock and none otherwise.
C20_ReleaseAll ==
    last.op = "releaseAll" =>
        /\ ~crashed
        /\ \A l \in DOMAIN locks :
              \/ ~Holds(locks[l], last.conn)
              \/ \E i \in 1..Len(out) : out[i].to = last.conn /\ out[i].status = "LOCKED"
        /\ CountStatus("NOLOCKTORELEASE") = 0
        /\ \A l \in DOMAIN locks : ~isAbandoned(locks[l])
        /\ CountStatus("NOLOCKSTORELEASEALL") =
              IF \E l \in DOMAIN pre : Holds(pre[l], last.conn) THEN 0 ELSE 1

\* C21: QUIT.  A QUIT of a connection (a command of the JSON protocol) releases
\* every lock it holds without NOLOCKSTORELEASEALL, sends GOINPIECES to it as
\* the last frame and ends the connection; afterwards the connection is in no
\* entity, neither as holder nor with a queued request.
C21_Quit ==
    (rev = "json" /\ last.op = "quit")
    => /\ ~crashed
       /\ last.conn \in closed
       /\ CountStatus("NOLOCKSTORELEASEALL") = 0
       /\ Len(out) >= 1
       /\ out[Len(out)].to = last.conn
       /\ out[Len(out)].status = "GOINPIECES"
       /\ \A l \in DOMAIN locks : ~Holds(locks[l], last.conn) /\ ~Queued(locks[l], last.conn)

\* C22: client protocol errors change nothing.  A frame that names no command
\* is answered with COMMANDNOTFOUND and an ACQUIRE without lock id with
\* CANNOTACQUIREINVALIDLOCKID; the registry stays as it was and the connection
\* stays open (the server goes on serving it).
C22_ProtocolErrors ==
    last.op \in {"unknown", "acquireNoLockId"}
    => /\ ~crashed
       /\ locks = pre
       /\ last.conn \notin closed
       /\ Len(out) = 1
       /\ out[1].to = last.conn
       /\ out[1].status = IF last.op = "unknown" THEN "COMMANDNOTFOUND"
                                                  ELSE "CANNOTACQUIREINVALIDLOCKID"

\* C23: protocol tolerance.  The frame "lock <id>" has the effect of the ACQUIRE
\* command for that id (mode W by default) sent by the same connection in the
\* same state: the same frames are written and the same registry results.
C23_ProtocolTolerance ==
    (last.op = "lock" /\ ~crashed)
    => LET before == [Machine EXCEPT !.locks = pre]
           acquired == collectionAcquire(before, last.conn, last.lockId, "W", NoNonce)
       IN  /\ out = acquired.out
           /\ locks = acquired.locks

\* C24: nonce echo on deferred grants.  The request that an acquire puts in a
\* queue keeps the nonce the acquire carried; the LOCKED frame of a request
\* granted by abdication and the ACQUIRETIMEOUT frame of a request whose timer
\* fired carry the nonce of that request.  Together: the deferred response
\* echoes the nonce of the original acquire.
C24_NonceEcho ==
    /\ last.op = "acquire" =>
          \A mode \in {"R", "W"} :
             LET before == QueueOf(EntityIn(pre, last.lockId), mode)
                 after == QueueOf(EntityIn(locks, last.lockId), mode)
             IN  Len(after) = Len(before) + 1 => after[Len(after)].nonce = last.nonce
    /\ last.op \in {"release", "releaseAll", "disconnect"} =>
          \A i \in 1..Len(out) :
             out[i].status = "LOCKED" =>
                \E l \in DOMAIN pre :
                   LET before == QueueOf(pre[l], out[i].mode)
                   IN  \E j \in 1..Len(before) :
                          /\ before[j].socket = out[i].to
                          /\ out[i].nonce = pushIfDefined(<<>>, before[j].nonce)
    /\ last.op = "timer" =>
          \A i \in 1..Len(out) :
             out[i].status = "ACQUIRETIMEOUT" =>
                out[i].nonce = pushIfDefined(<<>>,
                                  QueueOf(pre[last.lockId], last.mode)[last.req].nonce)

\* C25: SHOW.  The answer to SHOW lists, once each, exactly the lock ids that
\* some connection holds or waits on; it lists no abandoned entity, and SHOW
\* leaves the registry as it was.
C25_Show ==
    last.op = "show"
    => /\ ~crashed
       /\ locks = pre
       /\ Len(out) = 1
       /\ out[1].to = last.conn
       /\ out[1].status = "SHOW"
       /\ LET listed == out[1].locks
              occupied == {l \in DOMAIN locks : ~isAbandoned(locks[l])}
          IN  /\ {listed[i] : i \in 1..Len(listed)} = occupied
              /\ Len(listed) = Cardinality(occupied)

\* a SHOW that listed a lock which a connection holds
C25_Witness ==
    /\ last.op = "show" /\ ~crashed
    /\ Len(out) = 1
    /\ out[1].locks = <<"X">>
    /\ Holds(locks["X"], "c1")

\* C26: upgrade blocked.  An acquire for write by a reader of a lock that has
\* another reader is answered LOCKPENDING W and nothing else, appends one
\* request of the connection to the writer queue, and leaves the readers (the
\* connection among them), the writer and the reader queue as they were.
C26_UpgradeBlocked ==
    (/\ last.op = "acquire" /\ last.mode = "W"
     /\ last.lockId \in DOMAIN pre
     /\ ~isWriteLocked(pre[last.lockId])
     /\ isSocketReader(pre[last.lockId], last.conn)
     /\ SocketsOf(pre[last.lockId].readers) # {last.conn})
    => LET L == EntityIn(locks, last.lockId)
           P == pre[last.lockId]
       IN  /\ ~crashed
           /\ Len(out) = 1
           /\ out[1].to = last.conn
           /\ out[1].status = "LOCKPENDING"
           /\ out[1].mode = "W"
           /\ L.readers = P.readers
           /\ L.writer = P.writer
           /\ L.readerQueue = P.readerQueue
           /\ Len(L.writerQueue) = Len(P.writerQueue) + 1
           /\ SubSeq(L.writerQueue, 1, Len(P.writerQueue)) = P.writerQueue
           /\ L.writerQueue[Len(L.writerQueue)].socket = last.conn

\* one of two readers asked for the write lock and was queued
C26_Witness ==
    /\ ~crashed
    /\ last.op = "acquire" /\ last.mode = "W"
    /\ last.lockId \in DOMAIN pre /\ last.lockId \in DOMAIN locks
    /\ SocketsOf(pre[last.lockId].readers) = {"c1", "c2"}
    /\ Queued(locks[last.lockId], last.conn)
    /\ isSocketReader(locks[last.lockId], last.conn)

\* socket a has a queued request for lock l that a hold of socket b blocks
Waits(reg, a, l, b) ==
    /\ l \in DOMAIN reg /\ a # b
    /\ \/ a \in SocketsOf(reg[l].writerQueue) /\ Holds(reg[l], b)
       \/ a \in SocketsOf(reg[l].readerQueue) /\ reg[l].writer.socket = b

\* a and b wait on each other: each holds a lock the other has a blocked
\* request for (one lock when both read it and both ask to write it)
CrossWait(reg, a, b) ==
    \E la \in DOMAIN reg, lb \in DOMAIN reg :
        Waits(reg, a, lb, b) /\ Waits(reg, b, la, a)

\* the last handler was the timer of a request of socket a for lock l
TimerOf(a, l) ==
    /\ last.op = "timer" /\ last.lockId = l
    /\ QueueOf(pre[l], last.mode)[last.req].socket = a

\* C27: deadlock is not detected and ends by timeout.  While two sockets wait
\* on each other and neither releases or disconnects, a handler grants neither
\* of the two blocked requests: the blocking hold stays, no request of a
\* waiting socket leaves its queue but by its own timer, and that timer
\* removes the request, sends its socket ACQUIRETIMEOUT and nothing else, and
\* leaves the writer and the readers of the lock as they were.
C27_DeadlockTimesOut ==
    \A a \in Conns, b \in Conns :
        (CrossWait(pre, a, b) /\ last.op \in {"acquire", "timer", "staleTimer"})
        => \A l \in DOMAIN pre :
              Waits(pre, a, l, b) =>
                 LET L == EntityIn(locks, l) IN
                 /\ Holds(L, b)
                 /\ IF TimerOf(a, l)
                    THEN /\ ~crashed
                         /\ QueueOf(L, last.mode)
                               = RemoveAt(QueueOf(pre[l], last.mode), last.req)
                         /\ Len(out) = 1
                         /\ out[1].to = a
                         /\ out[1].status = "ACQUIRETIMEOUT"
                         /\ L.writer = pre[l].writer
                         /\ L.readers = pre[l].readers
                    ELSE \A mode \in {"R", "W"} :
                            Occurrences(QueueOf(L, mode), a)
                                >= Occurrences(QueueOf(pre[l], mode), a)

\* two sockets each held one lock and had a queued request for the other's,
\* and the timer of one of the requests has been handled
C27_Witness ==
    /\ ~crashed
    /\ last.op = "timer"
    /\ \E a \in Conns, b \in Conns, la \in DOMAIN pre, lb \in DOMAIN pre :
          /\ la # lb
          /\ Waits(pre, a, lb, b) /\ Waits(pre, b, la, a)
          /\ TimerOf(a, lb)
          /\ Len(out) = 1 /\ out[1].status = "ACQUIRETIMEOUT"

\* C28: expired records are granted or rejected.  When the timer of a still
\* queued request has been handled, exactly one of two things happened: the
\* lock was available for the mode of the request once it left its queue, its
\* socket holds the lock in that mode and was sent LOCKED and not
\* ACQUIRETIMEOUT; or the lock was not available, its socket was sent
\* ACQUIRETIMEOUT and not LOCKED, and the holders are as they were (nothing
\* can be sent to a socket that has ended).
C28_ExpiredGrantedOrRejected ==
    last.op = "timer" =>
        LET P == pre[last.lockId]
            request == QueueOf(P, last.mode)[last.req]
            P1 == IF last.mode = "R"
                  THEN [P EXCEPT !.readerQueue = RemoveAt(@, last.req)]
                  ELSE [P EXCEPT !.writerQueue = RemoveAt(@, last.req)]
            available == IF last.mode = "R" THEN isReadAvailable(P1)
                                            ELSE isWriteAvailable(P1, NoSocket)
            L == EntityIn(locks, last.lockId)
            sent(status) == \E i \in 1..Len(out) :
                               out[i].to = request.socket /\ out[i].status = status
        IN  /\ QueueOf(L, last.mode) = QueueOf(P1, last.mode)
            /\ IF available
               THEN /\ IF last.mode = "R" THEN isSocketReader(L, request.socket)
                                          ELSE L.writer.socket = request.socket
                    /\ request.socket \in closed \/ sent("LOCKED")
                    /\ ~sent("ACQUIRETIMEOUT")
               ELSE /\ request.socket \in closed \/ sent("ACQUIRETIMEOUT")
                    /\ ~sent("LOCKED")
                    /\ L.writer = P.writer /\ L.readers = P.readers

\* the LOCKED frames of the last handler for lock l in this mode
GrantFrames(l, mode) ==
    SelectSeq(out, LAMBDA f : f.status = "LOCKED" /\ f.mode = mode /\ f.lockId = l)

\* C29: one abdication cycle grants at most one writer, and never a queued
\* reader and a queued writer together.  In a handler that releases (each lock
\* is abdicated once), for every lock at most one LOCKED W is sent, and it is
\* sent to the socket that is the writer afterwards; and when a queued reader
\* was granted (LOCKED R was sent, or a socket stands in readers more often
\* than before) no LOCKED W is sent and the lock has no writer.
C29_OneWriterPerCycle ==
    last.op \in {"release", "releaseAll", "disconnect"} =>
        \A l \in DOMAIN pre :
            LET P == pre[l]
                L == EntityIn(locks, l)
                readerGranted ==
                    \/ GrantFrames(l, "R") # <<>>
                    \/ \E c \in Conns : Occurrences(L.readers, c) > Occurrences(P.readers, c)
            IN  /\ Len(GrantFrames(l, "W")) <= 1
                /\ \A i \in 1..Len(GrantFrames(l, "W")) :
                       GrantFrames(l, "W")[i].to = L.writer.socket
                /\ readerGranted => GrantFrames(l, "W") = <<>> /\ ~isWriteLocked(L)

\* a release handed the write lock to the first of two queued writers and left
\* the second queued
C29_Witness ==
    /\ ~crashed
    /\ last.op = "release"
    /\ last.lockId \in DOMAIN locks
    /\ Len(pre[last.lockId].writerQueue) = 2
    /\ Len(locks[last.lockId].writerQueue) = 1
    /\ Len(GrantFrames(last.lockId, "W")) = 1
    /\ locks[last.lockId].writer.socket = pre[last.lockId].writerQueue[1].socket

\* C30: readers before writers in an abdication cycle.  When the writer of a
\* lock releases it, with requests in the reader queue and read available once
\* the writer is gone (so always in greedy mode), the cycle grants every queued
\* reader (the reader queue is empty, each of its sockets is among the readers
\* and was sent LOCKED R, in queue order) and grants no queued writer (no
\* LOCKED W, no writer, the writer queue as it was), also when a writer was
\* queued before the readers.
C30_ReadersBeforeWriters ==
    \A l \in DOMAIN pre :
        (/\ last.op \in {"release", "releaseAll", "disconnect"}
         /\ last.op = "release" => last.lockId = l
         /\ pre[l].writer.socket = last.conn
         /\ hasRequests(pre[l].readerQueue)
         /\ isReadAvailable([pre[l] EXCEPT !.writer = NoWriter]))
        => LET P == pre[l]
               L == EntityIn(locks, l)
               granted == GrantFrames(l, "R")
           IN  /\ ~crashed
               /\ L.readerQueue = <<>>
               /\ \A c \in Conns :
                      Occurrences(L.readers, c) >= Occurrences(P.readerQueue, c)
               /\ Len(granted) = Len(P.readerQueue)
               /\ \A i \in 1..Len(granted) : granted[i].to = P.readerQueue[i].socket
               /\ GrantFrames(l, "W") = <<>>
               /\ ~isWriteLocked(L)
               /\ L.writerQueue = P.writerQueue

\* C31: no request waits on a free lock.  Between handlers, a lock that has no
\* writer and no readers has an empty reader queue and an empty writer queue.
C31_NoWaitOnFreeLock ==
    ~crashed =>
        \A l \in DOMAIN locks :
            (~isWriteLocked(locks[l]) /\ ~isReadLocked(locks[l]))
            => locks[l].readerQueue = <<>> /\ locks[l].writerQueue = <<>>

\* the one holder of a lock with a queued request released it, and the lock
\* went to the socket of the request
C31_Witness ==
    /\ ~crashed
    /\ last.op = "release"
    /\ last.lockId \in DOMAIN pre /\ last.lockId \in DOMAIN locks
    /\ LET P == pre[last.lockId]
           L == locks[last.lockId]
       IN  /\ \A c \in Conns : Holds(P, c) => c = last.conn
           /\ Holds(P, last.conn)
           /\ hasRequests(P.writerQueue) \/ hasRequests(P.readerQueue)
           /\ ~Holds(L, last.conn)
           /\ \E c \in Conns : Queued(P, c) /\ Holds(L, c)

\* C32: no stale waiting reader.  Between handlers, read is not available on a
\* lock whose reader queue holds a request: a queued reader does not go on
\* waiting once nothing stands in its way, as when in non-greedy mode the
\* request of the writer it waits behind has timed out.
C32_NoStaleWaitingReader ==
    ~crashed =>
        \A l \in DOMAIN locks :
            hasRequests(locks[l].readerQueue) => ~isReadAvailable(locks[l])

\* the timer of a writer's request took the last waiting writer away from a
\* lock without writer, and left a queued reader
WriterTimedOutBeforeReader ==
    /\ last.op = "timer" /\ last.mode = "W"
    /\ ~isWriteLocked(pre[last.lockId])
    /\ Len(pre[last.lockId].writerQueue) = 1
    /\ hasRequests(pre[last.lockId].readerQueue)

\* C32 as amended: a handler other than the timer of a writer's request leaves
\* no stale waiting reader when there was none before it; the timer of a
\* writer's request does not abdicate, so when it takes away the writer a
\* queued reader waits behind, the reader is not granted: it stays queued, and
\* nothing but ACQUIRETIMEOUT is sent.
C32_StaleOnlyByWriterTimeout ==
    /\ [][(C32_NoStaleWaitingReader
             /\ ~(last'.op = "timer" /\ last'.mode = "W"))
          => C32_NoStaleWaitingReader']_vars
    /\ [](WriterTimedOutBeforeReader =>
             /\ ~crashed
             /\ locks[last.lockId].readerQueue = pre[last.lockId].readerQueue
             /\ locks[last.lockId].readers = pre[last.lockId].readers
             /\ \A i \in 1..Len(out) : out[i].status = "ACQUIRETIMEOUT")

\* in non-greedy mode the request of the writer has timed out, and the reader
\* that was queued behind it is still queued though read is available
C32_Witness ==
    /\ ~crashed /\ ~greedy
    /\ WriterTimedOutBeforeReader
    /\ hasRequests(locks[last.lockId].readerQueue)
    /\ isReadAvailable(locks[last.lockId])

\* C33: a queued upgrade is served when it becomes possible.  When reader c
\* has the first request of the writer queue of a lock without writer, and a
\* release, a release of all or a disconnect of the one other reader leaves c
\* the only reader, the abdication of that release grants c the write lock: c
\* is the writer and no reader, its request has left the writer queue, and
\* LOCKED W was sent to c (nothing can be sent to a socket that has ended).
C33_QueuedUpgradeServed ==
    \A l \in DOMAIN pre, c \in Conns :
        (/\ last.op \in {"release", "releaseAll", "disconnect"}
         /\ last.op = "release" => last.lockId = l
         /\ c # last.conn
         /\ ~isWriteLocked(pre[l])
         /\ Len(pre[l].readers) = 2
         /\ SocketsOf(pre[l].readers) = {c, last.conn}
         /\ hasRequests(pre[l].writerQueue)
         /\ pre[l].writerQueue[1].socket = c)
        => LET L == EntityIn(locks, l)
           IN  /\ ~crashed
               /\ L.writer.socket = c
               /\ L.readers = <<>>
               /\ L.writerQueue = Tail(pre[l].writerQueue)
               /\ c \in closed \/ \E i \in 1..Len(out) : IsLocked(out[i], c, "W")

\* C34: a release that releases nothing changes nothing.  After a RELEASE of
\* a lock, a RELEASEALL or a disconnect by a connection that is neither the
\* writer nor a reader of the lock, the writer, the readers and both queues of
\* the lock are as they were, and no LOCKED was sent to any connection.
C34_EmptyReleaseChangesNothing ==
    \A l \in DOMAIN pre :
        (/\ last.op \in {"release", "releaseAll", "disconnect"}
         /\ last.op = "release" => last.lockId = l
         /\ ~Holds(pre[l], last.conn))
        => /\ l \in DOMAIN locks
           /\ locks[l] = pre[l]
           /\ \A i \in 1..Len(out) : out[i].status # "LOCKED"

====
